---- MODULE Spec2Model ----
(***************************************************************************)
(* Model of the SrtTranslate batch translation orchestrators               *)
(* (TranslationControls.onStartTranslation and                             *)
(* SubtitleFileList.handleStartTranslation), the translation client        *)
(* (translateBatch) and the DataManager task store they write to.          *)
(*                                                                         *)
(* Text values are numbers: a source text is the id of its entry, a        *)
(* translatedText of 0 is the absent / empty string, any other number is a *)
(* non-empty translation.                                                  *)
(***************************************************************************)
EXTENDS Integers, Sequences, FiniteSets, TLC

\* ---- bounds of the model -------------------------------------------------
NumEntries == 3          \* entries of the imported subtitle file
RetryBound == 2          \* the maxRetries of the calls the orchestrators make
                         \* (the parameter's default is 5; a behaviour of the
                         \* model follows one file-translation run)

\* ---- input sets ----------------------------------------------------------
BatchSizes == {1, 2}     \* config.batchSize values tried
ThreadCounts == {1, 2}   \* config.threadCount values tried
TokenValues == {42}      \* usage.total_tokens of a 2xx response
EditValue == 7           \* the translation typed into the editor
\* config.apiKey as its '|'-separated segments; "" is the empty segment and
\* " " a segment of whitespace (the empty string is the one segment "")
ConfiguredKey == <<"k1">>

VARIABLES
  config,        \* TranslationContext state.config (the fields the run reads)
  isTranslating, \* TranslationContext state.isTranslating
  abortController, \* TranslationContext state.abortController: "none" | "ctrl"
  apiKeyIndexRef, \* TranslationProvider apiKeyIndexRef.current
  aborted,       \* controller.signal.aborted of the run's AbortController
  files,         \* SubtitleContext state.files
  tasks,         \* DataManager.memoryStore.batch_tasks.tasks
  history,       \* DataManager.memoryStore.translation_history
  durable,       \* localforage: [batch_tasks, translation_history]
  timers,        \* pending setTimeout callbacks that persist, in firing order
  run,           \* the active orchestrator closure (locals of the handler)
  calls,         \* one translateBatch activation per batch of the run
  obs            \* observations of the run (history variables)

vars == <<config, isTranslating, abortController, apiKeyIndexRef, aborted,
          files, tasks, history, durable, timers, run, calls, obs>>

\* ---- small helpers -------------------------------------------------------
\* Math.min
Min(a, b) == IF a < b THEN a ELSE b

\* Array.prototype.slice(from, to) with 0-based bounds, clipped
Slice(s, from, to) == SubSeq(s, from + 1, Min(to, Len(s)))

\* entry.translatedText && entry.translatedText.trim() !== ''
IsTranslated(e) == e.translatedText # 0

\* entries.filter(entry => translated).length
CountTranslated(entries) ==
  Cardinality({i \in DOMAIN entries : IsTranslated(entries[i])})

\* the entries loadFromFile gets for an uploaded file: none translated
ImportedEntries(n) == [i \in 1..n |-> [id |-> i, text |-> i, translatedText |-> 0]]

\* ---- DataManager ---------------------------------------------------------
\* tasks.findIndex(t => t.taskId === taskId), 0 when absent
TaskIndex(ts, taskId) ==
  IF \E i \in DOMAIN ts : ts[i].taskId = taskId
  THEN CHOOSE i \in DOMAIN ts : ts[i].taskId = taskId
       /\ \A j \in DOMAIN ts : ts[j].taskId = taskId => i <= j
  ELSE 0

getTaskById(ts, taskId) == ts[TaskIndex(ts, taskId)]

HasTask(ts, taskId) == TaskIndex(ts, taskId) # 0

\* generateTaskId: a fresh id
generateTaskId(ts) == Len(ts) + 1

\* the in-memory part of createNewTask
createNewTask(ts, entries, index) ==
  Append(ts, [taskId |-> generateTaskId(ts),
              subtitle_entries |-> entries,
              translation_progress |->
                [completed |-> 0, total |-> Len(entries),
                 tokens |-> 0, status |-> "idle"],
              index |-> index])

\* the recomputation shared by the entry updates
WithEntries(task, updatedEntries) ==
  [task EXCEPT
     !.subtitle_entries = updatedEntries,
     !.translation_progress =
        [@ EXCEPT !.completed = CountTranslated(updatedEntries),
                  !.total = IF @ # 0 THEN @ ELSE Len(updatedEntries)]]

updateTaskSubtitleEntryInMemory(ts, taskId, entryId, text, translatedText) ==
  IF ~HasTask(ts, taskId) THEN ts
  ELSE LET task == getTaskById(ts, taskId)
           updatedEntries ==
             [i \in DOMAIN task.subtitle_entries |->
                LET entry == task.subtitle_entries[i] IN
                IF entry.id = entryId
                THEN [entry EXCEPT !.text = text,
                                   !.translatedText = translatedText]
                ELSE entry]
       IN [ts EXCEPT ![TaskIndex(ts, taskId)] = WithEntries(task, updatedEntries)]

\* updates: a sequence of [id, text, translatedText]
batchUpdateTaskSubtitleEntries(ts, taskId, updates) ==
  IF ~HasTask(ts, taskId) THEN ts
  ELSE LET task == getTaskById(ts, taskId)
           updatedEntries ==
             [i \in DOMAIN task.subtitle_entries |->
                LET entry == task.subtitle_entries[i] IN
                IF \E u \in DOMAIN updates : updates[u].id = entry.id
                THEN LET u == CHOOSE k \in DOMAIN updates :
                                 /\ updates[k].id = entry.id
                                 /\ \A m \in DOMAIN updates :
                                      updates[m].id = entry.id => k <= m
                     IN [entry EXCEPT !.text = updates[u].text,
                                      !.translatedText = updates[u].translatedText]
                ELSE entry]
       IN [ts EXCEPT ![TaskIndex(ts, taskId)] = WithEntries(task, updatedEntries)]

\* updates: a record holding some of the fields of translation_progress
updateTaskTranslationProgressInMemory(ts, taskId, updates) ==
  IF ~HasTask(ts, taskId) THEN ts
  ELSE [ts EXCEPT ![TaskIndex(ts, taskId)].translation_progress = updates @@ @]

\* the in-memory part of addHistoryEntry
addHistoryEntry(h, entry) ==
  IF \E i \in DOMAIN h : h[i].taskId = entry.taskId
  THEN [i \in DOMAIN h |-> IF h[i].taskId = entry.taskId THEN entry ELSE h[i]]
  ELSE <<entry>> \o h

\* ---- translateBatch (translation client) ---------------------------------
MaxBatches == NumEntries

\* the text the API returns under key j of the direct pass of call c, and
\* the refined text it returns in the "free" field of the reflection pass
DirectVal(c, j) == 10 * c + j
FreeVal(c, j) == 100 + 10 * c + j

\* a parsed JSON body: the keys present and the fields under each key
NoResult == [keys |-> {}, direct |-> << >>]

\* lastError is the attempt whose error it holds, 0 for null
IdleCall ==
  [pc |-> "idle", attempt |-> 0, maxRetries |-> 0, totalTokensUsed |-> 0,
   texts |-> << >>, directResult |-> NoResult, translations |-> NoResult,
   lastError |-> 0, err |-> "none"]

\* key.trim()
trim(segment) == IF segment = " " THEN "" ELSE segment

\* apiKeyStr.split('|').map(trim).filter(non-empty)
apiKeys(apiKeyStr) ==
  SelectSeq([i \in DOMAIN apiKeyStr |-> trim(apiKeyStr[i])],
            LAMBDA key : key # "")

\* !state.config.apiKey
NoApiKey(apiKeyStr) == apiKeyStr = <<"">>

\* variant of nextIndex that starts every batch of requests at the first key
nextIndexReset(currentIndex, apiKeyStr) == 0

\* getNextApiKey: the index it leaves in apiKeyIndexRef (0-based)
nextIndex(currentIndex, apiKeyStr) ==
  (currentIndex + 1) % Len(apiKeys(apiKeyStr))

\* getNextApiKey: the key it returns, "undefined" beyond the list
getNextApiKey(currentIndex, apiKeyStr) ==
  IF currentIndex + 1 \in DOMAIN apiKeys(apiKeyStr)
  THEN apiKeys(apiKeyStr)[currentIndex + 1]
  ELSE "undefined"

\* throw new Error('翻译被取消') / a rejected fetch (name AbortError)
Throw(call, err) ==
  [IdleCall EXCEPT !.pc = IF err \in {"error", "noApiKey"} THEN "failed"
                          ELSE "cancelled",
                   !.lastError = IF err = "error" THEN call.lastError ELSE 0,
                   !.err = err]

\* top of the retry loop: the abort check before the try block
tbLoopTop(call, signal) ==
  IF signal THEN Throw(call, "cancelMessage") ELSE [call EXCEPT !.pc = "rl"]

\* the call itself, up to its first await
translateBatch(texts, signal, retries) ==
  LET call == [IdleCall EXCEPT !.texts = texts, !.attempt = 1,
                               !.maxRetries = retries]
  IN IF NoApiKey(config.apiKey) THEN Throw(call, "noApiKey")
     ELSE tbLoopTop(call, signal)

\* variant of tbCatch whose loop allows one attempt more than maxRetries
tbCatchOneMore(call) ==
  LET caught == [call EXCEPT !.lastError = call.attempt] IN
  IF call.attempt <= call.maxRetries THEN [caught EXCEPT !.pc = "backoff"]
  ELSE Throw(caught, "error")

\* the catch block of a direct attempt, for a non-cancellation error; after
\* the last attempt the loop ends and the empty directResult makes it throw
tbCatch(call) ==
  LET caught == [call EXCEPT !.lastError = call.attempt] IN
  IF call.attempt < call.maxRetries THEN [caught EXCEPT !.pc = "backoff"]
  ELSE Throw(caught, "error")

\* variant of tbAfterRate without the abort check that precedes the fetch
tbAfterRateUnchecked(call, signal) == [call EXCEPT !.pc = "fetch"]

\* after await rateLimiter.waitForAvailability(): abort check, getNextApiKey
\* (which throws into the catch block without a valid key), then fetch
tbAfterRate(call, signal) ==
  IF signal THEN Throw(call, "cancelMessage")
  ELSE IF Len(apiKeys(config.apiKey)) = 0 THEN tbCatch(call)
       ELSE [call EXCEPT !.pc = "fetch"]

\* the key sets of a parsed body: the empty object, or every key of the
\* template (a line left out is a key whose translation is empty)
KeySets(n) == {{}, 1..n}

DirectResults(c, n) ==
  {[keys |-> K, direct |-> d] :
     K \in KeySets(n),
     d \in [1..n -> {0} \cup {DirectVal(c, j) : j \in 1..n}]}

WellFormedDirect(c, n, r) ==
  \A j \in 1..n : /\ r.direct[j] \in {0, DirectVal(c, j)}
                  /\ (j \notin r.keys => r.direct[j] = 0)

\* the responses a direct request of n lines can get: a failure (network
\* error or non-2xx status) or a 2xx whose content parses
DirectResponses(c, n) ==
  {[kind |-> "error", tokens |-> 0, result |-> NoResult]}
  \cup {[kind |-> "ok", tokens |-> t, result |-> r] :
          t \in TokenValues,
          r \in {x \in DirectResults(c, n) : WellFormedDirect(c, n, x)}}

\* what follows the direct pass once directResult is assigned (break)
tbAfterDirect(call, signal) ==
  IF call.directResult.keys = {} THEN Throw(call, "error")
  ELSE IF config.enableReflection
       THEN IF signal THEN Throw(call, "cancelMessage")
            ELSE [call EXCEPT !.pc = "rrl"]
       ELSE [call EXCEPT !.pc = "resolved", !.translations = call.directResult]

\* variant of tbDirectResponse that adds the tokens of an attempt only once
\* its content has parsed
tbDirectResponseCountParsed(call, resp, signal) ==
  IF resp.kind = "abort" THEN Throw(call, "AbortError")
  ELSE IF resp.kind \in {"error", "badBody"} THEN tbCatch(call)
  ELSE tbAfterDirect([call EXCEPT !.totalTokensUsed = @ + resp.tokens,
                                  !.directResult = resp.result], signal)

\* the fetch of a direct attempt settles
tbDirectResponse(call, resp, signal) ==
  IF resp.kind = "abort" THEN Throw(call, "AbortError")
  ELSE IF resp.kind = "error" THEN tbCatch(call)
  ELSE LET counted == [call EXCEPT !.totalTokensUsed = @ + resp.tokens] IN
       IF resp.kind = "badBody" THEN tbCatch(counted)
       ELSE tbAfterDirect([counted EXCEPT !.directResult = resp.result], signal)

\* the backoff sleep ends: next iteration of the loop
tbBackoffDone(call, signal) ==
  tbLoopTop([call EXCEPT !.attempt = @ + 1], signal)

\* variant of tbReflAfterRate without the abort check that precedes the fetch
tbReflAfterRateUnchecked(call, signal) ==
  IF Len(apiKeys(config.apiKey)) = 0
  THEN [call EXCEPT !.pc = "resolved", !.translations = call.directResult]
  ELSE [call EXCEPT !.pc = "rfetch"]

\* reflection: after the rate limiter wait
tbReflAfterRate(call, signal) ==
  IF signal THEN Throw(call, "cancelMessage")
  ELSE IF Len(apiKeys(config.apiKey)) = 0
       THEN [call EXCEPT !.pc = "resolved", !.translations = call.directResult]
       ELSE [call EXCEPT !.pc = "rfetch"]

ReflectionResults(c, n) ==
  {[keys |-> K, free |-> f, direct |-> d] :
     K \in KeySets(n),
     f \in [1..n -> {0} \cup {FreeVal(c, j) : j \in 1..n}],
     d \in [1..n -> {0} \cup {DirectVal(c, j) : j \in 1..n}]}

WellFormedReflection(c, n, r) ==
  \A j \in 1..n : /\ r.free[j] \in {0, FreeVal(c, j)}
                  /\ r.direct[j] \in {0, DirectVal(c, j)}
                  /\ (j \notin r.keys => r.free[j] = 0 /\ r.direct[j] = 0)

ReflectionResponses(c, n) ==
  {[kind |-> "error", tokens |-> 0,
    result |-> [keys |-> {}, free |-> << >>, direct |-> << >>]]}
  \cup {[kind |-> "badBody", tokens |-> t,
         result |-> [keys |-> {}, free |-> << >>, direct |-> << >>]] :
          t \in TokenValues}
  \cup {[kind |-> "ok", tokens |-> t, result |-> r] :
          t \in TokenValues,
          r \in {x \in ReflectionResults(c, n) : WellFormedReflection(c, n, x)}}

\* formattedResult: direct <- free || direct, over the keys of the reflection
formattedResult(r, n) ==
  [keys |-> r.keys,
   direct |-> [j \in 1..n |-> IF r.free[j] # 0 THEN r.free[j] ELSE r.direct[j]]]

\* variant of tbReflResponse that lets a failed reflection request fail the
\* call instead of falling back to the direct result
tbReflResponseNoFallback(call, resp) ==
  IF resp.kind = "abort" THEN Throw(call, "AbortError")
  ELSE IF resp.kind = "error" THEN Throw(call, "error")
  ELSE LET counted == [call EXCEPT !.totalTokensUsed = @ + resp.tokens] IN
       IF resp.kind = "badBody"
       THEN [counted EXCEPT !.pc = "resolved",
                            !.translations = call.directResult]
       ELSE [counted EXCEPT !.pc = "resolved",
                            !.translations =
                               formattedResult(resp.result,
                                               Len(resp.result.free))]

\* the fetch of the reflection request settles
tbReflResponse(call, resp) ==
  IF resp.kind = "abort" THEN Throw(call, "AbortError")
  ELSE IF resp.kind = "error"
       THEN [call EXCEPT !.pc = "resolved", !.translations = call.directResult]
  ELSE LET counted == [call EXCEPT !.totalTokensUsed = @ + resp.tokens] IN
       IF resp.kind = "badBody"
       THEN [counted EXCEPT !.pc = "resolved",
                            !.translations = call.directResult]
       ELSE [counted EXCEPT !.pc = "resolved",
                            !.translations =
                               formattedResult(resp.result,
                                               Len(resp.result.free))]

\* what remains of a settled call: how it settled
Kept(call) == [IdleCall EXCEPT !.pc = call.pc, !.err = call.err]

Settled(call) == call.pc \in {"resolved", "failed", "cancelled"}
InFlight(call) == call.pc \in {"rl", "fetch", "backoff", "rrl", "rfetch"}

\* ---- SubtitleContext -----------------------------------------------------
\* subtitleReducer, case UPDATE_ENTRY
UPDATE_ENTRY(fs, fileId, id, text, translatedText) ==
  [k \in DOMAIN fs |->
     IF fs[k].id = fileId
     THEN [fs[k] EXCEPT !.entries =
             [i \in DOMAIN fs[k].entries |->
                LET entry == fs[k].entries[i] IN
                IF entry.id = id
                THEN [entry EXCEPT !.text = text,
                                   !.translatedText = translatedText]
                ELSE entry]]
     ELSE fs[k]]

FileIndex(fs, fileId) ==
  IF \E k \in DOMAIN fs : fs[k].id = fileId
  THEN CHOOSE k \in DOMAIN fs : fs[k].id = fileId
  ELSE 0

\* updateEntry: the effect on the task store (the file's own task)
updateEntryStore(ts, fs, fileId, id, text, translatedText) ==
  IF FileIndex(fs, fileId) = 0 THEN ts
  ELSE updateTaskSubtitleEntryInMemory(
         ts, fs[FileIndex(fs, fileId)].currentTaskId, id, text, translatedText)

RECURSIVE updateEntriesFiles(_, _, _)
\* updateEntry called for each update in turn: the reducer state
updateEntriesFiles(fs, fileId, updates) ==
  IF updates = << >> THEN fs
  ELSE updateEntriesFiles(
         UPDATE_ENTRY(fs, fileId, Head(updates).id, Head(updates).text,
                      Head(updates).translatedText),
         fileId, Tail(updates))

RECURSIVE updateEntriesStore(_, _, _, _)
\* updateEntry called for each update in turn: the task store
updateEntriesStore(ts, fs, fileId, updates) ==
  IF updates = << >> THEN ts
  ELSE updateEntriesStore(
         updateEntryStore(ts, fs, fileId, Head(updates).id, Head(updates).text,
                          Head(updates).translatedText),
         fs, fileId, Tail(updates))

\* ---- TranslationContext --------------------------------------------------
\* updateProgress; tokenUpdate is [tokens |-> n] when newTokens is passed
\* and the empty record otherwise
updateProgress(ts, current, total, phase, taskId, tokenUpdate) ==
  updateTaskTranslationProgressInMemory(
    ts, taskId,
    tokenUpdate @@
    [completed |-> current, total |-> total,
     status |-> IF phase = "completed" THEN "completed" ELSE "translating"])

NoTokens == [x \in {} |-> 0]

\* completeTranslation: the in-memory update of the task
completeTranslation(ts, taskId) ==
  IF ~HasTask(ts, taskId) THEN ts
  ELSE updateTaskTranslationProgressInMemory(
         ts, taskId,
         [status |-> "completed",
          tokens |-> getTaskById(ts, taskId).translation_progress.tokens])

\* the timer completeTranslation sets, when the task exists
completeTimer(ts, taskId) ==
  IF ~HasTask(ts, taskId) THEN << >>
  ELSE <<[kind |-> "progress", taskId |-> taskId,
          tokens |-> getTaskById(ts, taskId).translation_progress.tokens]>>

\* ---- orchestrator locals -------------------------------------------------
IdleRun ==
  [kind |-> "none", pc |-> "idle", entries |-> << >>, fileId |-> 0,
   taskId |-> 0, currentCompletedCount |-> 0, allBatches |-> << >>, i |-> 0]

IdleCalls == [c \in 1..MaxBatches |-> IdleCall]

NewRunObs ==
  [requested |-> [e \in 1..NumEntries |-> 0],
   httpSent |-> {}, http |-> {},
   returned |-> [e \in 1..NumEntries |-> 0],
   resolvedCalls |-> {}, tokSum |-> 0, reported |-> {},
   completeCalled |-> FALSE, historyAdded |-> FALSE,
   cancelPc |-> "none",
   dispatched |-> << >>]

RunIdle == run.pc = "idle"
RunEnded == run.pc \in {"idle", "done"}

\* getActualProgress().completed, over the entries captured by the closure
getActualProgress(entries) == CountTranslated(entries)

totalBatches(entries, batchSize) == (Len(entries) + batchSize - 1) \div batchSize

Untranslated(e) == ~IsTranslated(e)

RECURSIVE BuildBatches(_, _, _)
\* the loop that fills allBatches, from batchIndex on
BuildBatches(entries, batchSize, batchIndex) ==
  IF batchIndex >= totalBatches(entries, batchSize) THEN << >>
  ELSE LET startIdx == batchIndex * batchSize
           endIdx == Min(startIdx + batchSize, Len(entries))
           batchEntries == Slice(entries, startIdx, endIdx)
           untranslatedEntries == SelectSeq(batchEntries, Untranslated)
           rest == BuildBatches(entries, batchSize, batchIndex + 1)
       IN IF Len(untranslatedEntries) = 0 THEN rest
          ELSE <<[batchIndex |-> batchIndex,
                  untranslatedEntries |-> untranslatedEntries]>> \o rest

\* startBatchIndex
startBatchIndex(entries, batchSize) ==
  getActualProgress(entries) \div batchSize

allBatchesOf(entries, batchSize) ==
  BuildBatches(entries, batchSize, startBatchIndex(entries, batchSize))

TextsOf(entries) == [j \in DOMAIN entries |-> entries[j].text]

RECURSIVE batchUpdatesFrom(_, _, _)
\* batchUpdates of one batch: keys in ascending order, from key j on
batchUpdatesFrom(untranslatedEntries, translations, j) ==
  IF j > Len(untranslatedEntries) THEN << >>
  ELSE LET rest == batchUpdatesFrom(untranslatedEntries, translations, j + 1)
       IN IF j \in translations.keys /\ translations.direct[j] # 0
          THEN <<[id |-> untranslatedEntries[j].id,
                  text |-> untranslatedEntries[j].text,
                  translatedText |-> translations.direct[j]]>> \o rest
          ELSE rest

batchUpdatesOf(untranslatedEntries, translations) ==
  batchUpdatesFrom(untranslatedEntries, translations, 1)

\* ---- initial state ------------------------------------------------------
Init ==
  /\ config \in [batchSize : BatchSizes, threadCount : ThreadCounts,
                 enableReflection : BOOLEAN, apiKey : {ConfiguredKey}]
  /\ apiKeyIndexRef = 0
  /\ isTranslating = FALSE
  /\ abortController = "none"
  /\ aborted = FALSE
  /\ files = << >>
  /\ tasks = << >>
  /\ history = << >>
  /\ durable = [batch_tasks |-> << >>, translation_history |-> << >>]
  /\ timers = << >>
  /\ run = IdleRun
  /\ calls = IdleCalls
  /\ obs = NewRunObs

\* ---- file import and manual edit -----------------------------------------
\* SubtitleContext.loadFromFile (the model imports one file)
loadFromFile ==
  /\ tasks = << >>
  /\ LET entries == ImportedEntries(NumEntries)
         taskId == generateTaskId(tasks)
         created == createNewTask(tasks, entries, Len(files))
     IN /\ tasks' = created
        /\ \E ok \in BOOLEAN :
             IF ok
             THEN /\ durable' = [durable EXCEPT !.batch_tasks = created]
                  /\ files' = Append(files, [id |-> taskId, entries |-> entries,
                                             currentTaskId |-> taskId])
             ELSE UNCHANGED <<durable, files>>
  /\ UNCHANGED <<config, apiKeyIndexRef, isTranslating, abortController, aborted, history,
                 timers, run, calls, obs>>

\* SubtitleEditor.onSaveEdit: updateEntry on the first file
onSaveEdit ==
  /\ RunIdle
  /\ Len(files) > 0
  /\ \E id \in 1..NumEntries, v \in {0, EditValue} :
       /\ files' = UPDATE_ENTRY(files, files[1].id, id, id, v)
       /\ tasks' = updateEntryStore(tasks, files, files[1].id, id, id, v)
  /\ UNCHANGED <<config, apiKeyIndexRef, isTranslating, abortController, aborted, history,
                 durable, timers, run, calls, obs>>

\* ---- cancellation --------------------------------------------------------
\* TranslationContext.stopTranslation(): aborts the stored controller (the
\* cancel signal of a run that has not ended)
stopTranslation ==
  /\ abortController = "ctrl"
  /\ ~RunEnded
  /\ aborted' = TRUE
  /\ isTranslating' = FALSE
  /\ abortController' = "none"
  /\ obs' = [obs EXCEPT !.cancelPc = run.pc]
  /\ UNCHANGED <<config, apiKeyIndexRef, files, tasks, history, durable, timers, run, calls>>

\* ---- TranslationControls.onStartTranslation ------------------------------
\* the click: initTranslation and the in-memory part of createNewTask
onStartTranslation ==
  /\ RunIdle
  /\ Len(files) > 0
  /\ Len(files[1].entries) > 0
  /\ ~isTranslating
  /\ abortController' = "ctrl"
  /\ aborted' = FALSE
  /\ isTranslating' = TRUE
  /\ tasks' = createNewTask(tasks, files[1].entries, 0)
  /\ run' = [IdleRun EXCEPT !.kind = "controls", !.pc = "createNewTask",
                            !.entries = files[1].entries,
                            !.fileId = files[1].id,
                            !.taskId = generateTaskId(tasks)]
  /\ calls' = IdleCalls
  /\ obs' = NewRunObs
  /\ UNCHANGED <<config, apiKeyIndexRef, files, history, durable, timers>>

\* createNewTask's write settles; then initial progress and allBatches
onStartTranslation_created ==
  /\ run.kind = "controls"
  /\ run.pc = "createNewTask"
  /\ \E ok \in BOOLEAN :
       IF ok
       THEN /\ durable' = [durable EXCEPT !.batch_tasks = tasks]
            /\ tasks' = updateProgress(tasks, getActualProgress(run.entries),
                                       Len(run.entries), "direct", run.taskId,
                                       NoTokens)
            /\ run' = [run EXCEPT
                         !.pc = "dispatch",
                         !.currentCompletedCount = getActualProgress(run.entries),
                         !.allBatches = allBatchesOf(run.entries, config.batchSize),
                         !.i = 0]
       ELSE /\ run' = [run EXCEPT !.pc = "done"]
            /\ UNCHANGED <<durable, tasks>>
  /\ UNCHANGED <<config, apiKeyIndexRef, isTranslating, abortController, aborted, files,
                 history, timers, calls, obs>>

\* variant of Group that takes every remaining batch at once
GroupUnbounded(r) == (r.i + 1)..Len(r.allBatches)

\* the batches of the group that starts at offset i
Group(r) == (r.i + 1)..Min(r.i + config.threadCount, Len(r.allBatches))

EntryIds(entries) == {entries[j].id : j \in DOMAIN entries}

\* one iteration of the group loop: the calls of the group start; after the
\* last group, the final progress update
onStartTranslation_dispatch ==
  /\ run.kind = "controls"
  /\ run.pc = "dispatch"
  /\ IF run.i >= Len(run.allBatches)
     THEN /\ tasks' = updateProgress(tasks, getActualProgress(run.entries),
                                     Len(run.entries), "completed", run.taskId,
                                     NoTokens)
          /\ run' = [run EXCEPT !.pc = "delay100"]
          /\ UNCHANGED <<calls, obs>>
     ELSE LET started ==
                [c \in 1..MaxBatches |->
                   IF c \in Group(run)
                   THEN translateBatch(
                          TextsOf(run.allBatches[c].untranslatedEntries),
                          aborted, RetryBound)
                   ELSE calls[c]]
              ids == UNION {EntryIds(run.allBatches[c].untranslatedEntries) :
                              c \in Group(run)}
          IN /\ calls' = started
             /\ run' = [run EXCEPT !.pc = "awaitGroup"]
             /\ obs' = [obs EXCEPT
                          !.requested = [e \in 1..NumEntries |->
                                           IF e \in ids THEN @[e] + 1 ELSE @[e]],
                          !.dispatched =
                             @ \o [k \in 1..Cardinality(Group(run)) |-> run.i + k],
                          !.reported =
                             @ \cup {c \in Group(run) : Settled(started[c])}]
             /\ UNCHANGED tasks
  /\ UNCHANGED <<config, apiKeyIndexRef, isTranslating, abortController, aborted, files,
                 history, durable, timers>>

\* Promise.all of the group resolves
onStartTranslation_groupDone ==
  /\ run.kind = "controls"
  /\ run.pc = "awaitGroup"
  /\ \A c \in Group(run) : Settled(calls[c])
  /\ run' = [run EXCEPT !.pc = "dispatch", !.i = @ + config.threadCount]
  /\ UNCHANGED <<config, apiKeyIndexRef, isTranslating, abortController, aborted, files, tasks,
                 history, durable, timers, calls, obs>>

\* what a batch callback does once its translateBatch call has settled
onStartTranslation_batch(c, nc, o) ==
  /\ calls' = [calls EXCEPT ![c] = Kept(nc)]
  /\ IF nc.pc = "resolved"
     THEN LET batch == run.allBatches[c]
              batchUpdates ==
                batchUpdatesOf(batch.untranslatedEntries, nc.translations)
              count == run.currentCompletedCount + Len(batchUpdates)
              merged == batchUpdateTaskSubtitleEntries(
                          tasks, run.taskId, batchUpdates)
              edited == updateEntriesStore(merged, files, run.fileId,
                                           batchUpdates)
          IN /\ run' = [run EXCEPT !.currentCompletedCount = count]
             /\ IF Len(batchUpdates) > 0
                THEN /\ files' = updateEntriesFiles(files, run.fileId,
                                                    batchUpdates)
                     /\ tasks' = updateProgress(edited, count, Len(run.entries),
                                                "direct", run.taskId, NoTokens)
                ELSE UNCHANGED <<files, tasks>>
             /\ obs' = [o EXCEPT
                          !.returned =
                             [e \in 1..NumEntries |->
                                IF \E j \in DOMAIN batch.untranslatedEntries :
                                     batch.untranslatedEntries[j].id = e
                                THEN LET j == CHOOSE k \in
                                                DOMAIN batch.untranslatedEntries :
                                                batch.untranslatedEntries[k].id = e
                                     IN IF j \in nc.translations.keys
                                        THEN nc.translations.direct[j] ELSE 0
                                ELSE @[e]],
                          !.resolvedCalls = @ \cup {c},
                          !.tokSum = @ + nc.totalTokensUsed]
     ELSE /\ obs' = [o EXCEPT !.reported =
                       IF nc.err # "AbortError" THEN @ \cup {c} ELSE @]
          /\ UNCHANGED <<files, tasks, run>>

\* completeTranslation after the 100 ms delay
onStartTranslation_complete ==
  /\ run.kind = "controls"
  /\ run.pc = "delay100"
  /\ isTranslating' = FALSE
  /\ tasks' = completeTranslation(tasks, run.taskId)
  /\ timers' = timers \o completeTimer(tasks, run.taskId)
  /\ run' = [run EXCEPT !.pc = "delay500"]
  /\ obs' = [obs EXCEPT !.completeCalled = TRUE]
  /\ UNCHANGED <<config, apiKeyIndexRef, abortController, aborted, files, history, durable,
                 calls>>

\* the history entry the run records for its task, if it records one
HistoryEntryOf(ts, taskId) ==
  LET task == getTaskById(ts, taskId) IN
  [taskId |-> taskId,
   completedCount |-> CountTranslated(task.subtitle_entries),
   totalTokens |-> task.translation_progress.tokens,
   current_translation_task |->
     [taskId |-> task.taskId, subtitle_entries |-> task.subtitle_entries,
      translation_progress |-> task.translation_progress]]

RecordsHistory(ts, taskId) ==
  /\ HasTask(ts, taskId)
  /\ CountTranslated(getTaskById(ts, taskId).subtitle_entries) > 0

\* the history block shared by both orchestrators
SaveHistory(taskId) ==
  IF RecordsHistory(tasks, taskId)
  THEN /\ history' = addHistoryEntry(history, HistoryEntryOf(tasks, taskId))
       /\ durable' = [durable EXCEPT !.translation_history = history']
  ELSE UNCHANGED <<history, durable>>

\* the history block after the 500 ms delay (the 200 ms timer of
\* completeTranslation has fired by then)
onStartTranslation_history ==
  /\ run.kind = "controls"
  /\ run.pc = "delay500"
  /\ timers = << >>
  /\ SaveHistory(run.taskId)
  /\ run' = [run EXCEPT !.pc = "done"]
  /\ obs' = [obs EXCEPT !.historyAdded = RecordsHistory(tasks, run.taskId)]
  /\ UNCHANGED <<config, apiKeyIndexRef, isTranslating, abortController, aborted, files, tasks,
                 timers, calls>>

\* ---- SubtitleFileList.handleStartTranslation -----------------------------
\* file.entries.slice(i, i + batchSize)
FileBatch(entries, i) == Slice(entries, i, i + config.batchSize)

\* translationStats.percentage of the file item
percentage(file) ==
  IF Len(file.entries) > 0
  THEN (200 * CountTranslated(file.entries) + Len(file.entries))
         \div (2 * Len(file.entries))
  ELSE 0

\* the start button of a file item: startTranslation and the first batch
handleStartTranslation ==
  /\ RunIdle
  /\ \E k \in DOMAIN files :
       LET file == files[k]
           first == translateBatch(TextsOf(FileBatch(file.entries, 0)), FALSE,
                                 RetryBound)
       IN /\ percentage(file) # 100
          /\ Len(file.entries) > 0
          /\ abortController' = "ctrl"
          /\ aborted' = FALSE
          /\ isTranslating' = TRUE
          /\ run' = [IdleRun EXCEPT
                       !.kind = "filelist", !.pc = "awaitBatch",
                       !.entries = file.entries, !.fileId = file.id,
                       !.taskId = file.currentTaskId, !.i = 0]
          /\ calls' = [IdleCalls EXCEPT ![1] = first]
          /\ obs' = [NewRunObs EXCEPT
                       !.requested =
                          [e \in 1..NumEntries |->
                             IF e \in EntryIds(FileBatch(file.entries, 0))
                             THEN 1 ELSE 0],
                       !.dispatched = <<1>>]
  /\ UNCHANGED <<config, apiKeyIndexRef, files, tasks, history, durable, timers>>

\* the loop body after translateBatch settles, and the next iteration
handleStartTranslation_batch(c, nc, o) ==
  IF nc.pc = "resolved"
  THEN LET batch == FileBatch(run.entries, run.i)
           updates == batchUpdatesOf(batch, nc.translations)
           edited == updateEntriesStore(tasks, files, run.fileId, updates)
           currentTokens ==
             IF HasTask(edited, run.taskId)
             THEN getTaskById(edited, run.taskId).translation_progress.tokens
             ELSE 0
           newTokens == currentTokens + nc.totalTokensUsed
           completed == Min(run.i + Len(batch), Len(run.entries))
           next == run.i + config.batchSize
           nextCall == translateBatch(TextsOf(FileBatch(run.entries, next)),
                                    aborted, RetryBound)
           returnedNow ==
             [e \in 1..NumEntries |->
                IF \E j \in DOMAIN batch : batch[j].id = e
                THEN LET j == CHOOSE k \in DOMAIN batch : batch[k].id = e
                     IN IF j \in nc.translations.keys
                        THEN nc.translations.direct[j] ELSE 0
                ELSE o.returned[e]]
           seen == [o EXCEPT !.returned = returnedNow,
                             !.resolvedCalls = @ \cup {c},
                             !.tokSum = @ + nc.totalTokensUsed]
       IN /\ files' = updateEntriesFiles(files, run.fileId, updates)
          /\ tasks' = updateProgress(edited, completed, Len(run.entries),
                                     "direct", run.taskId,
                                     [tokens |-> newTokens])
          /\ IF next < Len(run.entries)
             THEN /\ calls' = [calls EXCEPT ![c] = Kept(nc),
                                             ![c + 1] = nextCall]
                  /\ run' = [run EXCEPT
                               !.i = next,
                               !.pc = IF Settled(nextCall) THEN "done"
                                      ELSE "awaitBatch"]
                  /\ obs' = [seen EXCEPT
                               !.requested =
                                  [e \in 1..NumEntries |->
                                     IF e \in EntryIds(FileBatch(run.entries, next))
                                     THEN @[e] + 1 ELSE @[e]],
                               !.dispatched = Append(@, c + 1)]
             ELSE /\ calls' = [calls EXCEPT ![c] = Kept(nc)]
                  /\ run' = [run EXCEPT !.i = next, !.pc = "complete"]
                  /\ obs' = seen
  ELSE /\ calls' = [calls EXCEPT ![c] = Kept(nc)]
       /\ run' = [run EXCEPT !.pc = "done"]
       /\ obs' = [o EXCEPT !.reported =
                    IF nc.err = "error" THEN @ \cup {c} ELSE @]
       /\ UNCHANGED <<files, tasks>>

\* completeTranslation, the history block and the flush timer
handleStartTranslation_complete ==
  /\ run.kind = "filelist"
  /\ run.pc = "complete"
  /\ isTranslating' = FALSE
  /\ tasks' = completeTranslation(tasks, run.taskId)
  /\ LET done == completeTranslation(tasks, run.taskId) IN
     /\ IF RecordsHistory(done, run.taskId)
        THEN /\ history' = addHistoryEntry(history,
                                           HistoryEntryOf(done, run.taskId))
             /\ durable' = [durable EXCEPT !.translation_history = history']
        ELSE UNCHANGED <<history, durable>>
     /\ obs' = [obs EXCEPT !.completeCalled = TRUE,
                           !.historyAdded = RecordsHistory(done, run.taskId)]
  /\ timers' = timers \o completeTimer(tasks, run.taskId)
                      \o <<[kind |-> "flush", taskId |-> 0, tokens |-> 0]>>
  /\ run' = [run EXCEPT !.pc = "done"]
  /\ UNCHANGED <<config, apiKeyIndexRef, abortController, aborted, files, calls>>

\* ---- the steps of an active translateBatch call --------------------------
\* the continuation of the caller once a call has moved to nc
Continue(c, nc, o) ==
  /\ IF ~Settled(nc)
     THEN /\ calls' = [calls EXCEPT ![c] = nc]
          /\ obs' = o
          /\ UNCHANGED <<files, tasks, run>>
     ELSE IF run.kind = "controls"
          THEN onStartTranslation_batch(c, nc, o)
          ELSE handleStartTranslation_batch(c, nc, o)
  /\ UNCHANGED <<config, isTranslating, abortController, aborted, history,
                 durable, timers>>

Awaited(c) ==
  /\ run.pc \in {"awaitGroup", "awaitBatch"}
  /\ InFlight(calls[c])

\* an HTTP request of call c starts
HttpStarted(o, c) ==
  [o EXCEPT !.http = @ \cup {c},
            !.httpSent = @ \cup {calls[c].texts[j] : j \in DOMAIN calls[c].texts}]

\* rateLimiter.waitForAvailability() returns for a direct attempt
rateLimiterReady(c) ==
  /\ Awaited(c)
  /\ calls[c].pc = "rl"
  /\ LET nc == tbAfterRate(calls[c], aborted) IN
     /\ Continue(c, nc, IF nc.pc = "fetch" THEN HttpStarted(obs, c) ELSE obs)
     /\ apiKeyIndexRef' = IF nc.pc = "fetch"
                          THEN nextIndex(apiKeyIndexRef, config.apiKey)
                          ELSE apiKeyIndexRef

\* the fetch of a direct attempt settles
directResponse(c) ==
  /\ Awaited(c)
  /\ calls[c].pc = "fetch"
  /\ \E resp \in IF aborted
                 THEN {[kind |-> "abort", tokens |-> 0, result |-> NoResult]}
                 ELSE DirectResponses(c, Len(calls[c].texts)) :
       Continue(c, tbDirectResponse(calls[c], resp, aborted), obs)
  /\ UNCHANGED apiKeyIndexRef

\* the backoff sleep of a failed attempt ends
backoffElapsed(c) ==
  /\ Awaited(c)
  /\ calls[c].pc = "backoff"
  /\ Continue(c, tbBackoffDone(calls[c], aborted), obs)
  /\ UNCHANGED apiKeyIndexRef

\* rateLimiter.waitForAvailability() returns for the reflection request
reflectionRateLimiterReady(c) ==
  /\ Awaited(c)
  /\ calls[c].pc = "rrl"
  /\ LET nc == tbReflAfterRate(calls[c], aborted) IN
     /\ Continue(c, nc, IF nc.pc = "rfetch" THEN HttpStarted(obs, c) ELSE obs)
     /\ apiKeyIndexRef' = IF nc.pc = "rfetch"
                          THEN nextIndex(apiKeyIndexRef, config.apiKey)
                          ELSE apiKeyIndexRef

\* the fetch of the reflection request settles
reflectionResponse(c) ==
  /\ Awaited(c)
  /\ calls[c].pc = "rfetch"
  /\ \E resp \in IF aborted
                 THEN {[kind |-> "abort", tokens |-> 0,
                        result |-> [keys |-> {}, free |-> << >>,
                                    direct |-> << >>]]}
                 ELSE ReflectionResponses(c, Len(calls[c].texts)) :
       Continue(c, tbReflResponse(calls[c], resp), obs)
  /\ UNCHANGED apiKeyIndexRef

\* ---- timers --------------------------------------------------------------
\* the delayed updateTaskTranslationProgress of completeTranslation (200 ms)
persistTimer ==
  /\ timers # << >>
  /\ Head(timers).kind = "progress"
  /\ timers' = Tail(timers)
  /\ IF HasTask(tasks, Head(timers).taskId)
     THEN /\ tasks' = updateTaskTranslationProgressInMemory(
                        tasks, Head(timers).taskId,
                        [status |-> "completed", tokens |-> Head(timers).tokens])
          /\ durable' = [durable EXCEPT !.batch_tasks = tasks']
     ELSE UNCHANGED <<tasks, durable>>
  /\ UNCHANGED <<config, apiKeyIndexRef, isTranslating, abortController, aborted, files,
                 history, run, calls, obs>>

\* the delayed forcePersistAllData of handleStartTranslation (200 ms)
flushTimer ==
  /\ timers # << >>
  /\ Head(timers).kind = "flush"
  /\ timers' = Tail(timers)
  /\ durable' = [batch_tasks |-> tasks, translation_history |-> history]
  /\ UNCHANGED <<config, apiKeyIndexRef, isTranslating, abortController, aborted, files, tasks,
                 history, run, calls, obs>>

\* ---- specification -------------------------------------------------------
Next ==
  \/ loadFromFile
  \/ onSaveEdit
  \/ stopTranslation
  \/ onStartTranslation
  \/ onStartTranslation_created
  \/ onStartTranslation_dispatch
  \/ onStartTranslation_groupDone
  \/ onStartTranslation_complete
  \/ onStartTranslation_history
  \/ handleStartTranslation
  \/ handleStartTranslation_complete
  \/ \E c \in 1..MaxBatches : rateLimiterReady(c)
  \/ \E c \in 1..MaxBatches : directResponse(c)
  \/ \E c \in 1..MaxBatches : backoffElapsed(c)
  \/ \E c \in 1..MaxBatches : reflectionRateLimiterReady(c)
  \/ \E c \in 1..MaxBatches : reflectionResponse(c)
  \/ persistTimer
  \/ flushTimer

Spec == Init /\ [][Next]_vars

\* ---- the translation client on its own ------------------------------------
\* A text is the sequence of its lines (split at line breaks).
ClientCalls == {1, 2}    \* the translateBatch calls that can run at once

\* the batches passed to translateBatch: one text of one line, and one text
\* that holds a line break
TBTexts == {<< <<1>> >>, << <<1, 2>> >>}

\* the apiKey settings tried: empty, separators and whitespace only, two keys
ApiKeySettings == {<<"">>, <<" ", " ">>, <<"k1", "k2">>}

RECURSIVE join(_)
\* texts.join('\n'): the lines of the joined string
join(texts) == IF texts = << >> THEN << >> ELSE Head(texts) \o join(Tail(texts))

\* generateDirectPrompt: jsonDict, one key per line of lines.split('\n')
generateDirectPrompt(lines) ==
  [index \in DOMAIN lines |-> [origin |-> <<lines[index]>>, direct |-> 0]]

\* the direct responses of the client runs: those of DirectResponses and a
\* 2xx whose content does not parse
ClientDirectResponses(c, n) ==
  DirectResponses(c, n)
  \cup {[kind |-> "badBody", tokens |-> t, result |-> NoResult] :
          t \in TokenValues}

NewClientObs ==
  [keysUsed |-> << >>, turns |-> 0,
   template |-> [c \in ClientCalls |-> << >>],
   texts |-> [c \in ClientCalls |-> << >>],
   directHttp |-> [c \in ClientCalls |-> 0],
   tokens2xx |-> [c \in ClientCalls |-> 0],
   directTokens |-> [c \in ClientCalls |-> 0],
   directKind |-> [c \in ClientCalls |-> "none"],
   reflKind |-> [c \in ClientCalls |-> "none"]]

InitClient ==
  /\ config \in [batchSize : {1}, threadCount : {1},
                 enableReflection : BOOLEAN, apiKey : ApiKeySettings]
  /\ isTranslating = FALSE
  /\ abortController = "none"
  /\ apiKeyIndexRef = 0
  /\ aborted = FALSE
  /\ files = << >>
  /\ tasks = << >>
  /\ history = << >>
  /\ durable = [batch_tasks |-> << >>, translation_history |-> << >>]
  /\ timers = << >>
  /\ run = [IdleRun EXCEPT !.kind = "client"]
  /\ calls = IdleCalls
  /\ obs = NewClientObs

ClientFrame ==
  UNCHANGED <<config, isTranslating, abortController, files, tasks, history,
              durable, timers, run>>

\* the key a chat-completion request of caller c sends (c = 0: the connection
\* test), appended to the keys used so far; turns is how far the requests
\* have gone through the order call 1, call 2, call 1
UseKey(o, c) ==
  [o EXCEPT !.keysUsed =
              Append(@, getNextApiKey(apiKeyIndexRef, config.apiKey)),
            !.turns = IF (c = 1 /\ o.turns \in {0, 2}) \/ (c = 2 /\ o.turns = 1)
                      THEN @ + 1 ELSE @]

\* a caller invokes translateBatch
clientCall(c) ==
  /\ calls[c].pc = "idle"
  /\ obs.texts[c] = << >>
  /\ c > 1 => obs.texts[c - 1] # << >>
  /\ \E texts \in TBTexts :
       /\ calls' = [calls EXCEPT
                      ![c] = translateBatch(texts, aborted, RetryBound)]
       /\ obs' = [obs EXCEPT
                    !.texts[c] = texts,
                    !.template[c] =
                       IF NoApiKey(config.apiKey) THEN << >>
                       ELSE generateDirectPrompt(join(texts))]
  /\ UNCHANGED <<apiKeyIndexRef, aborted>>
  /\ ClientFrame

\* the caller aborts the signal the calls were given
clientAbort ==
  /\ ~aborted
  /\ obs.texts[1] # << >>
  /\ aborted' = TRUE
  /\ UNCHANGED <<apiKeyIndexRef, calls, obs>>
  /\ ClientFrame

\* rateLimiter.waitForAvailability() returns for a direct attempt
clientRateLimiterReady(c) ==
  /\ calls[c].pc = "rl"
  /\ LET nc == tbAfterRate(calls[c], aborted) IN
     /\ calls' = [calls EXCEPT ![c] = nc]
     /\ IF nc.pc = "fetch"
        THEN /\ apiKeyIndexRef' = nextIndex(apiKeyIndexRef, config.apiKey)
             /\ obs' = [UseKey(obs, c) EXCEPT !.directHttp[c] = @ + 1]
        ELSE UNCHANGED <<apiKeyIndexRef, obs>>
  /\ UNCHANGED aborted
  /\ ClientFrame

\* the fetch of a direct attempt settles
clientDirectResponse(c) ==
  /\ calls[c].pc = "fetch"
  /\ \E resp \in IF aborted
                 THEN {[kind |-> "abort", tokens |-> 0, result |-> NoResult]}
                 ELSE ClientDirectResponses(c, Len(obs.template[c])) :
       LET nc == tbDirectResponse(calls[c], resp, aborted) IN
       /\ calls' = [calls EXCEPT ![c] = nc]
       /\ obs' = [obs EXCEPT
                    !.tokens2xx[c] = @ + resp.tokens,
                    !.directKind[c] = resp.kind,
                    !.directTokens[c] = @ + resp.tokens]
  /\ UNCHANGED <<apiKeyIndexRef, aborted>>
  /\ ClientFrame

\* the backoff sleep of a failed attempt ends
clientBackoffElapsed(c) ==
  /\ calls[c].pc = "backoff"
  /\ calls' = [calls EXCEPT ![c] = tbBackoffDone(calls[c], aborted)]
  /\ UNCHANGED <<apiKeyIndexRef, aborted, obs>>
  /\ ClientFrame

\* rateLimiter.waitForAvailability() returns for the reflection request
clientReflectionRateLimiterReady(c) ==
  /\ calls[c].pc = "rrl"
  /\ LET nc == tbReflAfterRate(calls[c], aborted) IN
     /\ calls' = [calls EXCEPT ![c] = nc]
     /\ IF nc.pc = "rfetch"
        THEN /\ apiKeyIndexRef' = nextIndex(apiKeyIndexRef, config.apiKey)
             /\ obs' = UseKey(obs, c)
        ELSE UNCHANGED <<apiKeyIndexRef, obs>>
  /\ UNCHANGED aborted
  /\ ClientFrame

\* the fetch of the reflection request settles
clientReflectionResponse(c) ==
  /\ calls[c].pc = "rfetch"
  /\ \E resp \in IF aborted
                 THEN {[kind |-> "abort", tokens |-> 0,
                        result |-> [keys |-> {}, free |-> << >>,
                                    direct |-> << >>]]}
                 ELSE ReflectionResponses(c, Len(obs.template[c])) :
       /\ calls' = [calls EXCEPT ![c] = tbReflResponse(calls[c], resp)]
       /\ obs' = [obs EXCEPT !.tokens2xx[c] = @ + resp.tokens,
                             !.reflKind[c] = resp.kind]
  /\ UNCHANGED <<apiKeyIndexRef, aborted>>
  /\ ClientFrame

\* testConnection, before the translateBatch calls: one chat-completion call
\* with the next key
testConnection ==
  /\ obs.keysUsed = << >>
  /\ obs.texts[1] = << >>
  /\ ~NoApiKey(config.apiKey)
  /\ Len(apiKeys(config.apiKey)) > 0
  /\ apiKeyIndexRef' = nextIndex(apiKeyIndexRef, config.apiKey)
  /\ obs' = UseKey(obs, 0)
  /\ UNCHANGED <<aborted, calls>>
  /\ ClientFrame

NextClient ==
  \/ \E c \in ClientCalls : clientCall(c)
  \/ clientAbort
  \/ \E c \in ClientCalls : clientRateLimiterReady(c)
  \/ \E c \in ClientCalls : clientDirectResponse(c)
  \/ \E c \in ClientCalls : clientBackoffElapsed(c)
  \/ \E c \in ClientCalls : clientReflectionRateLimiterReady(c)
  \/ \E c \in ClientCalls : clientReflectionResponse(c)
  \/ testConnection

SpecClient == InitClient /\ [][NextClient]_vars

\* ---- the DataManager on its own -----------------------------------------
\* the updates of translation_progress the callers pass
ProgressUpdates ==
  {[status |-> "translating"]}
  \cup {[status |-> "completed", tokens |-> t] : t \in TokenValues}

\* the batches of entry updates the callers pass: a translation for each of
\* the entries from..from+batchSize-1
EntryBatches ==
  {[j \in 1..(Min(from + size - 1, NumEntries) - from + 1) |->
      [id |-> from + j - 1, text |-> from + j - 1, translatedText |-> v]] :
     from \in 1..NumEntries, size \in BatchSizes, v \in {EditValue}}

\* the history entries the callers pass for a task
HistoryEntries(taskId) ==
  {[taskId |-> taskId, completedCount |-> k, totalTokens |-> t] :
     k \in {NumEntries}, t \in TokenValues}

\* localforage.setItem(KEYS.BATCH_TASKS, memoryStore.batch_tasks)
setItemBatchTasks(d, ts) == [d EXCEPT !.batch_tasks = ts]

\* localforage.setItem(KEYS.HISTORY, updatedHistory)
setItemHistory(d, h) == [d EXCEPT !.translation_history = h]

\* variant of rethrow: the catch block logs the error and returns
swallow(writeFails) == FALSE

\* catch (error) { console.error(...); throw error }: the operation rejects
\* when the write has writeFails
rethrow(writeFails) == writeFails

\* what a DataManager method leaves behind for its caller
Outcome(op, writeFails, rejected) ==
  [op |-> op, writeFailed |-> writeFails, rejected |-> rejected]

InitDM ==
  /\ config = [batchSize |-> 1, threadCount |-> 1, enableReflection |-> FALSE,
               apiKey |-> ConfiguredKey]
  /\ isTranslating = FALSE
  /\ abortController = "none"
  /\ apiKeyIndexRef = 0
  /\ aborted = FALSE
  /\ files = << >>
  /\ tasks = << >>
  /\ history = << >>
  /\ durable = [batch_tasks |-> << >>, translation_history |-> << >>]
  /\ timers = << >>
  /\ run = [IdleRun EXCEPT !.kind = "dataManager"]
  /\ calls = IdleCalls
  /\ obs = Outcome("none", FALSE, FALSE)

DMFrame ==
  UNCHANGED <<config, isTranslating, abortController, apiKeyIndexRef, aborted,
              files, timers, run, calls>>

\* the write of batch_tasks that ends a persisting method, and its outcome
PersistBatchTasks(op) ==
  \E writeFails \in BOOLEAN :
    /\ durable' = IF writeFails THEN durable
                  ELSE setItemBatchTasks(durable, tasks')
    /\ obs' = Outcome(op, writeFails, rethrow(writeFails))

\* createNewTask(filename, entries, index): memory, then localforage
dmCreateNewTask ==
  /\ tasks = << >>
  /\ tasks' = createNewTask(tasks, ImportedEntries(NumEntries), 0)
  /\ PersistBatchTasks("createNewTask")
  /\ UNCHANGED history
  /\ DMFrame

\* updateTaskSubtitleEntry: memory, then localforage
dmUpdateTaskSubtitleEntry ==
  /\ \E taskId \in 1..Len(tasks), entryId \in 1..NumEntries,
        translatedText \in {0, EditValue} :
       tasks' = updateTaskSubtitleEntryInMemory(tasks, taskId, entryId,
                                                entryId, translatedText)
  /\ PersistBatchTasks("updateTaskSubtitleEntry")
  /\ UNCHANGED history
  /\ DMFrame

\* variant of dmUpdateTaskSubtitleEntryInMemory that also writes batch_tasks
dmUpdateTaskSubtitleEntryInMemoryPersisted ==
  /\ \E taskId \in 1..Len(tasks), entryId \in 1..NumEntries,
        translatedText \in {0, EditValue} :
       tasks' = updateTaskSubtitleEntryInMemory(tasks, taskId, entryId,
                                                entryId, translatedText)
  /\ durable' = setItemBatchTasks(durable, tasks')
  /\ obs' = Outcome("updateTaskSubtitleEntryInMemory", FALSE, FALSE)
  /\ UNCHANGED history
  /\ DMFrame

\* updateTaskSubtitleEntryInMemory: memory only
dmUpdateTaskSubtitleEntryInMemory ==
  /\ \E taskId \in 1..Len(tasks), entryId \in 1..NumEntries,
        translatedText \in {0, EditValue} :
       tasks' = updateTaskSubtitleEntryInMemory(tasks, taskId, entryId,
                                                entryId, translatedText)
  /\ obs' = Outcome("updateTaskSubtitleEntryInMemory", FALSE, FALSE)
  /\ UNCHANGED <<durable, history>>
  /\ DMFrame

\* batchUpdateTaskSubtitleEntries: memory only
dmBatchUpdateTaskSubtitleEntries ==
  /\ \E taskId \in 1..Len(tasks), updates \in EntryBatches :
       tasks' = batchUpdateTaskSubtitleEntries(tasks, taskId, updates)
  /\ obs' = Outcome("batchUpdateTaskSubtitleEntries", FALSE, FALSE)
  /\ UNCHANGED <<durable, history>>
  /\ DMFrame

\* updateTaskTranslationProgress: memory, then localforage
dmUpdateTaskTranslationProgress ==
  /\ \E taskId \in 1..Len(tasks), updates \in ProgressUpdates :
       tasks' = updateTaskTranslationProgressInMemory(tasks, taskId, updates)
  /\ PersistBatchTasks("updateTaskTranslationProgress")
  /\ UNCHANGED history
  /\ DMFrame

\* updateTaskTranslationProgressInMemory: memory only
dmUpdateTaskTranslationProgressInMemory ==
  /\ \E taskId \in 1..Len(tasks), updates \in ProgressUpdates :
       tasks' = updateTaskTranslationProgressInMemory(tasks, taskId, updates)
  /\ obs' = Outcome("updateTaskTranslationProgressInMemory", FALSE, FALSE)
  /\ UNCHANGED <<durable, history>>
  /\ DMFrame

\* tasks.filter(t => t.taskId !== taskId)
removeTask(ts, taskId) == SelectSeq(ts, LAMBDA t : t.taskId # taskId)

\* removeTask: memory, then localforage
dmRemoveTask ==
  /\ \E taskId \in 1..Len(tasks) : tasks' = removeTask(tasks, taskId)
  /\ PersistBatchTasks("removeTask")
  /\ UNCHANGED history
  /\ DMFrame

\* clearBatchTasks: memory, then localforage
dmClearBatchTasks ==
  /\ tasks # << >>
  /\ tasks' = << >>
  /\ PersistBatchTasks("clearBatchTasks")
  /\ UNCHANGED history
  /\ DMFrame

\* addHistoryEntry: memory, then localforage
dmAddHistoryEntry ==
  /\ \E taskId \in 1..Len(tasks) :
       \E entry \in HistoryEntries(taskId) :
         history' = addHistoryEntry(history, entry)
  /\ \E writeFails \in BOOLEAN :
       /\ durable' = IF writeFails THEN durable
                     ELSE setItemHistory(durable, history')
       /\ obs' = Outcome("addHistoryEntry", writeFails, rethrow(writeFails))
  /\ UNCHANGED tasks
  /\ DMFrame

\* forcePersistAllData: every key written from memory, each write on its own
dmForcePersistAllData ==
  /\ tasks # << >>
  /\ \E failedTasks, failedHistory \in BOOLEAN :
       /\ durable' =
            [batch_tasks |-> IF failedTasks THEN durable.batch_tasks
                             ELSE tasks,
             translation_history |-> IF failedHistory
                                     THEN durable.translation_history
                                     ELSE history]
       /\ obs' = Outcome("forcePersistAllData", failedTasks \/ failedHistory,
                         rethrow(failedTasks \/ failedHistory))
  /\ UNCHANGED <<tasks, history>>
  /\ DMFrame

NextDM ==
  \/ dmCreateNewTask
  \/ dmUpdateTaskSubtitleEntry
  \/ dmUpdateTaskSubtitleEntryInMemory
  \/ dmBatchUpdateTaskSubtitleEntries
  \/ dmUpdateTaskTranslationProgress
  \/ dmUpdateTaskTranslationProgressInMemory
  \/ dmRemoveTask
  \/ dmClearBatchTasks
  \/ dmAddHistoryEntry
  \/ dmForcePersistAllData

SpecDM == InitDM /\ [][NextDM]_vars

\* ---- the file list: start buttons and translate-all ----------------------
\* A translateBatch call is one await here: it resolves with a translation
\* for every line, or it throws. Runs are named by their owner:
\* 0 is the loop of handleStartAllTranslation, k > 0 the start button of the
\* k-th file item. abortController holds the owner of the controller stored
\* last (-1 for null) and aborted the owners whose controller was aborted.
\* Each button is pressed at most once (run.pressed).
FileSizes == <<2, 1>>

ListOwners == 0..Len(FileSizes)

IdleListRun == [pc |-> "idle", file |-> 0, i |-> 0]

\* the outcomes of an awaited translateBatch call
BatchOutcomes(signal) ==
  IF signal THEN {"cancelled"} ELSE {"full", "failed"}

\* result.translations of a resolved call of file k
ListTranslations(k, n) ==
  [keys |-> 1..n, direct |-> [j \in 1..n |-> DirectVal(k, j)]]

\* files.filter(file => progress.completed < progress.total), as positions
filesToTranslate(fs) ==
  SelectSeq([k \in DOMAIN fs |-> k],
            LAMBDA k : CountTranslated(fs[k].entries) < Len(fs[k].entries))

\* variant of afterFileRun that gives up the remaining files when a file's
\* run did not complete
afterFileRunStopOnFailure(outcome, queue) ==
  IF outcome = "completed" THEN queue ELSE << >>

\* the for-of loop of handleStartAllTranslation after a file's run: the
\* try/catch around it continues with the remaining files
afterFileRun(outcome, queue) == queue

RECURSIVE ImportAll(_, _)
\* loadFromFile for each of the first k files
ImportAll(ts, k) ==
  IF k = 0 THEN ts
  ELSE LET before == ImportAll(ts, k - 1)
       IN createNewTask(before, ImportedEntries(FileSizes[k]), k - 1)

InitList ==
  /\ config \in [batchSize : BatchSizes, threadCount : {1},
                 enableReflection : {FALSE}, apiKey : {ConfiguredKey}]
  /\ isTranslating = FALSE
  /\ abortController = -1
  /\ apiKeyIndexRef = 0
  /\ aborted = {}
  /\ tasks = ImportAll(<< >>, Len(FileSizes))
  /\ files = [k \in DOMAIN FileSizes |->
                [id |-> k, entries |-> ImportedEntries(FileSizes[k]),
                 currentTaskId |-> k]]
  /\ history = << >>
  /\ durable = [batch_tasks |-> ImportAll(<< >>, Len(FileSizes)),
                translation_history |-> << >>]
  /\ timers = << >>
  /\ run = [kind |-> "list",
            item |-> [k \in DOMAIN FileSizes |-> IdleListRun],
            isTranslatingLocal |-> [k \in DOMAIN FileSizes |-> FALSE],
            all |-> IdleListRun,
            isTranslatingGloballyState |-> FALSE,
            queue |-> << >>,
            pressed |-> {}]
  /\ calls = IdleCalls
  /\ obs = [plan |-> << >>, started |-> << >>, outcomes |-> << >>,
            allDone |-> FALSE]

ListRunOf(o) == IF o = 0 THEN run.all ELSE run.item[o]

\* a run of owner o moves to record r
WithListRun(o, r) ==
  IF o = 0 THEN [run EXCEPT !.all = r] ELSE [run EXCEPT !.item[o] = r]

\* the end of handleStartTranslation for owner o: the item resets its local
\* flag (finally), the translate-all loop goes on to its 1 s pause
EndListRun(o, outcome) ==
  IF o = 0
  THEN [run EXCEPT !.all = [IdleListRun EXCEPT !.pc = "sleep"],
                   !.queue = afterFileRun(outcome, @)]
  ELSE [run EXCEPT !.item[o] = IdleListRun,
                   !.isTranslatingLocal[o] = FALSE]

EndListObs(o, outcome) ==
  IF o = 0 THEN [obs EXCEPT !.outcomes = Append(@, outcome)] ELSE obs

\* the start button of item k: handleStartTranslationLocal, then
\* handleStartTranslation up to its first translateBatch
listStart(k) ==
  /\ k \notin run.pressed
  /\ ~run.isTranslatingLocal[k]
  /\ percentage(files[k]) # 100
  /\ ~run.isTranslatingGloballyState
  /\ abortController' = k
  /\ aborted' = aborted \ {k}
  /\ isTranslating' = TRUE
  /\ run' = [run EXCEPT !.isTranslatingLocal[k] = TRUE,
                        !.pressed = @ \cup {k},
                        !.item[k] = [pc |-> "awaitBatch", file |-> k, i |-> 0]]
  /\ UNCHANGED <<config, apiKeyIndexRef, files, tasks, history, durable,
                 timers, calls, obs>>

\* the translate-all button: handleStartAllTranslation up to its loop
listStartAll ==
  /\ 0 \notin run.pressed
  /\ Len(files) > 0
  /\ ~run.isTranslatingGloballyState
  /\ filesToTranslate(files) # << >>
  /\ run' = [run EXCEPT !.isTranslatingGloballyState = TRUE,
                        !.pressed = @ \cup {0},
                        !.queue = filesToTranslate(files),
                        !.all = [IdleListRun EXCEPT !.pc = "next"]]
  /\ obs' = [plan |-> filesToTranslate(files), started |-> << >>,
             outcomes |-> << >>, allDone |-> FALSE]
  /\ UNCHANGED <<config, apiKeyIndexRef, isTranslating, abortController,
                 aborted, files, tasks, history, durable, timers, calls>>

\* the loop takes the next file: handleStartTranslation(file) up to its
\* first translateBatch
listAllNext ==
  /\ run.all.pc = "next"
  /\ run.queue # << >>
  /\ abortController' = 0
  /\ aborted' = aborted \ {0}
  /\ isTranslating' = TRUE
  /\ run' = [run EXCEPT !.all = [pc |-> "awaitBatch", file |-> Head(run.queue),
                                 i |-> 0],
                        !.queue = Tail(@)]
  /\ obs' = [obs EXCEPT !.started = Append(@, Head(run.queue))]
  /\ UNCHANGED <<config, apiKeyIndexRef, files, tasks, history, durable,
                 timers, calls>>

\* the 1 s pause after a file's run ends
listAllPauseDone ==
  /\ run.all.pc = "sleep"
  /\ run' = [run EXCEPT !.all = [IdleListRun EXCEPT !.pc = "next"]]
  /\ UNCHANGED <<config, apiKeyIndexRef, isTranslating, abortController,
                 aborted, files, tasks, history, durable, timers, calls, obs>>

\* the loop is over: setIsTranslatingGlobally(false)
listAllFinish ==
  /\ run.all.pc = "next"
  /\ run.queue = << >>
  /\ run' = [run EXCEPT !.all = IdleListRun,
                        !.isTranslatingGloballyState = FALSE]
  /\ obs' = [obs EXCEPT !.allDone = TRUE]
  /\ UNCHANGED <<config, apiKeyIndexRef, isTranslating, abortController,
                 aborted, files, tasks, history, durable, timers, calls>>

\* the awaited translateBatch of owner o settles: the rest of the loop body
\* and the next iteration, or the catch block
listBatchSettles(o) ==
  /\ ListRunOf(o).pc = "awaitBatch"
  /\ \E outcome \in BatchOutcomes(o \in aborted) :
       LET r == ListRunOf(o)
           file == files[r.file]
           batch == FileBatch(file.entries, r.i)
           updates == batchUpdatesOf(
                        batch, ListTranslations(r.file, Len(batch)))
           edited == updateEntriesStore(tasks, files, file.id, updates)
           currentTokens ==
             IF HasTask(edited, file.currentTaskId)
             THEN getTaskById(edited, file.currentTaskId)
                    .translation_progress.tokens
             ELSE 0
           completed == Min(r.i + Len(batch), Len(file.entries))
           next == r.i + config.batchSize
       IN IF outcome = "full"
          THEN /\ files' = updateEntriesFiles(files, file.id, updates)
               /\ \E t \in TokenValues :
                    tasks' = updateProgress(edited, completed,
                                            Len(file.entries), "direct",
                                            file.currentTaskId,
                                            [tokens |-> currentTokens + t])
               /\ run' = WithListRun(o, [r EXCEPT
                            !.i = next,
                            !.pc = IF next < Len(file.entries)
                                   THEN "awaitBatch" ELSE "complete"])
               /\ UNCHANGED obs
          ELSE /\ run' = EndListRun(o, outcome)
               /\ obs' = EndListObs(o, outcome)
               /\ UNCHANGED <<files, tasks>>
  /\ UNCHANGED <<config, apiKeyIndexRef, isTranslating, abortController,
                 aborted, history, durable, timers, calls>>

\* completeTranslation, the history block and the flush timer of owner o
listComplete(o) ==
  /\ ListRunOf(o).pc = "complete"
  /\ LET taskId == files[ListRunOf(o).file].currentTaskId
         done == completeTranslation(tasks, taskId)
     IN /\ tasks' = done
        /\ IF RecordsHistory(done, taskId)
           THEN /\ history' = addHistoryEntry(history,
                                              HistoryEntryOf(done, taskId))
                /\ durable' = [durable EXCEPT
                                 !.translation_history = history']
           ELSE UNCHANGED <<history, durable>>
        /\ timers' = timers \o completeTimer(tasks, taskId)
                       \o <<[kind |-> "flush", taskId |-> 0, tokens |-> 0]>>
  /\ isTranslating' = FALSE
  /\ run' = EndListRun(o, "completed")
  /\ obs' = EndListObs(o, "completed")
  /\ UNCHANGED <<config, apiKeyIndexRef, abortController, aborted, files,
                 calls>>

\* TranslationContext.stopTranslation(): aborts the controller stored last
listStopTranslation ==
  /\ abortController # -1
  /\ ListRunOf(abortController).pc = "awaitBatch"
  /\ aborted' = aborted \cup {abortController}
  /\ isTranslating' = FALSE
  /\ abortController' = -1
  /\ UNCHANGED <<config, apiKeyIndexRef, files, tasks, history, durable,
                 timers, run, calls, obs>>

NextList ==
  \/ \E k \in DOMAIN FileSizes : listStart(k)
  \/ listStartAll
  \/ listAllNext
  \/ listAllPauseDone
  \/ listAllFinish
  \/ \E o \in ListOwners : listBatchSettles(o)
  \/ \E o \in ListOwners : listComplete(o)
  \/ listStopTranslation
  \/ persistTimer
  \/ flushTimer

SpecList == InitList /\ [][NextList]_vars

\* ---- properties ----------------------------------------------------------
\* the task the run writes to
RunTask == getTaskById(tasks, run.taskId)

AllTranslated(entries) == \A i \in DOMAIN entries : IsTranslated(entries[i])

\* an onStartTranslation run that went through all its steps, uncancelled
ControlsFinished ==
  /\ run.kind = "controls"
  /\ run.pc = "done"
  /\ obs.completeCalled
  /\ obs.cancelPc = "none"

\* the number of batches of the run and the entry ids of its batch c
NumBatches ==
  IF run.kind = "controls" THEN Len(run.allBatches)
  ELSE totalBatches(run.entries, config.batchSize)

BatchEntryIds(c) ==
  IF run.kind = "controls"
  THEN EntryIds(run.allBatches[c].untranslatedEntries)
  ELSE EntryIds(FileBatch(run.entries, (c - 1) * config.batchSize))

\* C1: in every reachable state, every task's translation_progress.completed
\* equals the number of its entries whose translatedText is non-empty.
C1_CompletedCountsTranslated ==
  \A t \in DOMAIN tasks :
    tasks[t].translation_progress.completed =
      CountTranslated(tasks[t].subtitle_entries)

\* C2: when an onStartTranslation run whose batches were dispatched
\* concurrently, and all resolved, ends, completed equals the number of translated entries and
\* every entry holds the translation its own batch returned for it.
C2_ConcurrentMergeCounts ==
  (ControlsFinished /\ config.threadCount >= 2 /\ Len(run.allBatches) >= 2
     /\ obs.resolvedCalls = 1..Len(run.allBatches)) =>
    /\ RunTask.translation_progress.completed =
         CountTranslated(RunTask.subtitle_entries)
    /\ \A e \in DOMAIN RunTask.subtitle_entries :
         obs.returned[e] # 0 =>
           RunTask.subtitle_entries[e].translatedText = obs.returned[e]

\* C3: when an onStartTranslation run ends, the task's tokens equal the sum
\* of the tokensUsed of the translateBatch calls that succeeded in the run.
C3_TokensSumOfBatches ==
  ControlsFinished => RunTask.translation_progress.tokens = obs.tokSum

\* C4: after the cancel signal fired while the batches of an
\* onStartTranslation run were being processed, the task is not marked
\* 'completed', completeTranslation is not invoked and no history entry is
\* added.
C4_CancelEndsCancelled ==
  (run.kind = "controls" /\ obs.cancelPc = "awaitGroup") =>
    /\ RunTask.translation_progress.status # "completed"
    /\ ~obs.completeCalled
    /\ ~obs.historyAdded

\* C5: when a run has ended uncancelled and translateBatch failed for a
\* batch, the failure was reported and every batch of the file was attempted.
C5_FailedBatchDoesNotEndRun ==
  (run.pc = "done" /\ obs.cancelPc = "none") =>
    \A c \in 1..MaxBatches :
      calls[c].pc = "failed" =>
        /\ c \in obs.reported
        /\ Len(obs.dispatched) = NumBatches

\* C6: when a run has ended uncancelled, the task's status is 'completed'
\* only if every entry of the task is translated.
C6_CompletedOnlyIfAllTranslated ==
  (run.pc = "done" /\ obs.cancelPc = "none" /\ HasTask(tasks, run.taskId)
     /\ RunTask.translation_progress.status = "completed") =>
    AllTranslated(RunTask.subtitle_entries)

\* C7: no entry that is already translated when the run starts is sent to
\* the API as a line to translate.
C7_TranslatedNeverSent ==
  \A e \in DOMAIN run.entries :
    IsTranslated(run.entries[e]) => run.entries[e].text \notin obs.httpSent

\* C8: once an onStartTranslation run has dispatched its batches, every entry
\* that was untranslated when the run started has been included in exactly
\* one translateBatch request.
C8_EveryUntranslatedRequestedOnce ==
  (run.kind = "controls" /\ run.pc \in {"delay100", "delay500"}) =>
    \A e \in DOMAIN run.entries :
      Untranslated(run.entries[e]) => obs.requested[run.entries[e].id] = 1

\* C9: once the cancel signal of a run is aborted, every translated entry of
\* the store keeps its translatedText, no call starts an HTTP request, and
\* an entry that receives a translation belongs to a batch whose call had
\* started its HTTP request.
C9_CancelKeepsMergedStartsNothing ==
  [][(aborted /\ ~RunIdle) =>
       /\ obs'.http = obs.http
       /\ DOMAIN tasks' = DOMAIN tasks
       /\ \A t \in DOMAIN tasks :
            \A e \in DOMAIN tasks[t].subtitle_entries :
              LET old == tasks[t].subtitle_entries[e].translatedText
                  new == tasks'[t].subtitle_entries[e].translatedText
              IN /\ old # 0 => new = old
                 /\ new # old =>
                      \E c \in obs.http :
                        tasks[t].subtitle_entries[e].id \in BatchEntryIds(c)]_vars

\* a cancelled run has ended with a merged batch and a batch that never
\* started its HTTP request, whose entries have no translation
C9_Witness ==
  /\ aborted
  /\ run.pc = "done"
  /\ obs.cancelPc \in {"awaitGroup", "awaitBatch"}
  /\ obs.resolvedCalls # {}
  /\ \E e \in DOMAIN RunTask.subtitle_entries : obs.returned[e] # 0
  /\ \E c \in 1..NumBatches :
       /\ c \notin obs.http
       /\ \A e \in DOMAIN RunTask.subtitle_entries :
            RunTask.subtitle_entries[e].id \in BatchEntryIds(c) =>
              ~IsTranslated(RunTask.subtitle_entries[e])

\* C10: in onStartTranslation at most threadCount translateBatch calls are in
\* flight, batches start in ascending batch-index order, and a batch at a
\* dispatch position beyond threadCount starts only after an earlier batch
\* has completed.
C10_BoundedOrderedDispatch ==
  run.kind = "controls" =>
    /\ Cardinality({c \in 1..MaxBatches : InFlight(calls[c])})
         <= config.threadCount
    /\ \A k \in 1..(Len(obs.dispatched) - 1) :
         run.allBatches[obs.dispatched[k]].batchIndex
           < run.allBatches[obs.dispatched[k + 1]].batchIndex
    /\ \A p \in DOMAIN obs.dispatched :
         p > config.threadCount =>
           \E q \in 1..(p - 1) : Settled(calls[obs.dispatched[q]])

\* a second group is in flight while threadCount calls can run at once
C10_Witness ==
  /\ run.kind = "controls"
  /\ config.threadCount >= 2
  /\ Len(obs.dispatched) > config.threadCount
  /\ \E c \in 1..MaxBatches :
       InFlight(calls[c]) /\ \E d \in 1..MaxBatches : d # c /\ calls[d].pc = "resolved"

C12_ReflectionFailureReturnsDirect ==
  \A c \in ClientCalls :
    obs.reflKind[c] = "error" =>
      /\ calls[c].pc = "resolved"
      /\ calls[c].translations = calls[c].directResult
      /\ calls[c].totalTokensUsed = obs.directTokens[c]

\* a failed reflection request after a direct pass that needed a retry
C12_Witness ==
  \E c \in ClientCalls :
    /\ obs.reflKind[c] = "error"
    /\ obs.directHttp[c] = RetryBound
    /\ calls[c].translations.keys # {}
    /\ calls[c].totalTokensUsed > 0

\* C13: once the run is cancelled, a call that has its direct result and is
\* waiting for the reflection rate limiter or for the reflection response
\* ends with the cancellation error and returns nothing; a reflection
\* request that fails in any other way (status, network, unparsable body)
\* makes the call return the direct result.
C13_CancelDuringReflectionThrows ==
  [][\A c \in ClientCalls :
       /\ (/\ aborted
           /\ calls[c].pc \in {"rrl", "rfetch"}
           /\ calls'[c] # calls[c]
           => /\ calls'[c].pc = "cancelled"
              /\ calls'[c].err \in {"cancelMessage", "AbortError"}
              /\ calls'[c].translations = NoResult)
       /\ (/\ calls[c].pc = "rfetch"
           /\ obs'.reflKind[c] \in {"error", "badBody"}
           => /\ calls'[c].pc = "resolved"
              /\ calls'[c].translations = calls[c].directResult)]_vars

\* one call cancelled while its reflection request was in flight and one
\* cancelled while it waited for the rate limiter, both after a direct result
C13_Witness ==
  \E c, d \in ClientCalls :
    /\ obs.directKind[c] = "ok" /\ obs.directKind[d] = "ok"
    /\ calls[c].pc = "cancelled" /\ calls[c].err = "AbortError"
    /\ obs.reflKind[c] = "abort"
    /\ calls[d].pc = "cancelled" /\ calls[d].err = "cancelMessage"

\* C14: the tokensUsed a call returns is the sum of usage.total_tokens over
\* every 2xx response it received: the direct attempts, those whose content
\* did not parse included, and the reflection response, also when its
\* content does not parse.
C14_TokensOfEvery2xx ==
  \A c \in ClientCalls :
    calls[c].pc = "resolved" => calls[c].totalTokensUsed = obs.tokens2xx[c]

\* a call that returns after a direct attempt with an unparsable body, a
\* direct attempt that parsed and a reflection response that did not parse
C14_Witness ==
  \E c \in ClientCalls :
    /\ calls[c].pc = "resolved"
    /\ obs.reflKind[c] = "badBody"
    /\ obs.directHttp[c] > 1
    /\ obs.directTokens[c] \notin TokenValues \cup {0}

\* C15: when the reflection response is a 2xx whose content parses, the call
\* returns a mapping with the keys of the direct result, and under each key
\* the reflection's free text or else the translation the direct pass gave
\* for that key, so that no line of the direct result is dropped.
C15_ReflectionKeepsDirectKeys ==
  \A c \in ClientCalls :
    (calls[c].pc = "resolved" /\ obs.reflKind[c] = "ok") =>
      /\ calls[c].translations.keys = calls[c].directResult.keys
      /\ \A j \in calls[c].directResult.keys :
            calls[c].translations.direct[j]
              \in {FreeVal(c, j), calls[c].directResult.direct[j]}

\* C16: the JSON template of the direct prompt has exactly the keys 1..n for
\* a batch of n source texts, key i holding the i-th text as origin and an
\* empty direct field, whatever the texts are, line breaks included.
C16_TemplateKeyPerText ==
  \A c \in ClientCalls :
    obs.template[c] # << >> =>
      /\ DOMAIN obs.template[c] = 1..Len(obs.texts[c])
      /\ \A i \in DOMAIN obs.template[c] :
            /\ obs.template[c][i].origin = obs.texts[c][i]
            /\ obs.template[c][i].direct = 0

C18_NoValidKeyFailsAtOnce ==
  Len(apiKeys(config.apiKey)) = 0 =>
    \A c \in ClientCalls :
      /\ obs.directHttp[c] = 0
      /\ calls[c].pc \in {"idle", "rl", "failed", "cancelled"}
      /\ calls[c].attempt <= 1

\* C19: updateTaskSubtitleEntryInMemory, batchUpdateTaskSubtitleEntries and
\* updateTaskTranslationProgressInMemory change only the in-memory store:
\* the durable copy, every key of it, is the same after them as before.
HotPathOps ==
  {"updateTaskSubtitleEntryInMemory", "batchUpdateTaskSubtitleEntries",
   "updateTaskTranslationProgressInMemory"}

C19_HotPathLeavesDurable ==
  [][obs'.op \in HotPathOps => durable' = durable /\ history' = history]_vars

\* the memory holds a translated entry and a progress that the durable copy
\* lacks, right after a hot-path operation
C19_Witness ==
  /\ obs.op \in HotPathOps
  /\ durable.batch_tasks # << >>
  /\ \E t \in DOMAIN tasks :
       /\ CountTranslated(tasks[t].subtitle_entries)
            > CountTranslated(durable.batch_tasks[t].subtitle_entries)
       /\ tasks[t].translation_progress.status
            # durable.batch_tasks[t].translation_progress.status

\* C20: once a run has finished with its task marked completed and the
\* timers it left have fired, the history holds an entry for the task and
\* the durable batch_tasks equals the in-memory batch_tasks.
RunSettled ==
  /\ run.pc = "done"
  /\ timers = << >>
  /\ obs.completeCalled
  /\ HasTask(tasks, run.taskId)
  /\ getTaskById(tasks, run.taskId).translation_progress.status = "completed"

C20_CompletedRunRecordedAndFlushed ==
  RunSettled =>
    /\ \E i \in DOMAIN history : history[i].taskId = run.taskId
    /\ durable.batch_tasks = tasks

\* C21: when the durable write of createNewTask, removeTask,
\* clearBatchTasks, updateTaskTranslationProgress, addHistoryEntry or
\* forcePersistAllData fails, the operation rejects, and the in-memory store
\* holds the whole in-memory effect of the operation and stays well formed
\* (distinct task ids, total equal to the number of entries).
PersistingOps ==
  {"createNewTask", "removeTask", "clearBatchTasks",
   "updateTaskTranslationProgress", "addHistoryEntry", "forcePersistAllData"}

StoreWellFormed(ts) ==
  \A i, j \in DOMAIN ts :
    /\ (ts[i].taskId = ts[j].taskId => i = j)
    /\ ts[i].translation_progress.total = Len(ts[i].subtitle_entries)

C21_FailedWriteRejectsKeepsMemory ==
  [][(obs'.op \in PersistingOps /\ obs'.writeFailed) =>
       /\ obs'.rejected
       /\ StoreWellFormed(tasks')
       /\ CASE obs'.op = "createNewTask" ->
                 /\ tasks' = createNewTask(tasks, ImportedEntries(NumEntries), 0)
                 /\ history' = history
            [] obs'.op = "removeTask" ->
                 /\ \E taskId \in 1..Len(tasks) :
                      tasks' = removeTask(tasks, taskId)
                 /\ history' = history
            [] obs'.op = "clearBatchTasks" ->
                 tasks' = << >> /\ history' = history
            [] obs'.op = "updateTaskTranslationProgress" ->
                 /\ \E taskId \in 1..Len(tasks), updates \in ProgressUpdates :
                      tasks' = updateTaskTranslationProgressInMemory(
                                 tasks, taskId, updates)
                 /\ history' = history
            [] obs'.op = "addHistoryEntry" ->
                 /\ \E taskId \in 1..Len(tasks) :
                      \E entry \in HistoryEntries(taskId) :
                        history' = addHistoryEntry(history, entry)
                 /\ tasks' = tasks
            [] obs'.op = "forcePersistAllData" ->
                 tasks' = tasks /\ history' = history]_vars

\* a progress update whose write failed: the caller got the rejection, the
\* memory holds the completed status and the durable copy does not
C21_Witness ==
  /\ obs.op = "updateTaskTranslationProgress"
  /\ obs.writeFailed
  /\ obs.rejected
  /\ tasks # << >>
  /\ tasks[1].translation_progress.status = "completed"
  /\ durable.batch_tasks # << >>
  /\ durable.batch_tasks[1].translation_progress.status # "completed"

\* ---- properties of the file list -----------------------------------------
\* C22: translate-all starts the runs of the files to translate one after
\* another in list order, each only after the run before it has ended, and
\* when its loop is over every one of these files has had its run, whether
\* the runs before it completed, failed or were cancelled.
C22_TranslateAllSequential ==
  /\ Len(obs.started) <= Len(obs.plan)
  /\ \A n \in DOMAIN obs.started : obs.started[n] = obs.plan[n]
  /\ \A m, n \in DOMAIN obs.plan : m < n => obs.plan[m] < obs.plan[n]
  /\ Len(obs.started) - Len(obs.outcomes) \in {0, 1}
  /\ (Len(obs.started) > Len(obs.outcomes)
        <=> run.all.pc \in {"awaitBatch", "complete"})
  /\ (obs.allDone => obs.started = obs.plan)

\* translate-all over two files is over: the run of the first was cancelled
\* and the run of the second completed
C22_Witness ==
  /\ obs.allDone
  /\ Len(obs.plan) > 1
  /\ obs.outcomes[1] = "cancelled"
  /\ obs.outcomes[Len(obs.outcomes)] = "completed"

\* C27: at most one run is in progress on a file of the list at any time,
\* whether started by the file's start button or by translate-all.
ListRunActive(o) == ListRunOf(o).pc \in {"awaitBatch", "complete"}

C27_OneRunPerFile ==
  \A o, q \in ListOwners :
    (/\ ListRunActive(o) /\ ListRunActive(q)
     /\ ListRunOf(o).file = ListRunOf(q).file) => o = q

\* C23: the task store holds exactly one task per uploaded file; starting a
\* translation run on a file never adds a task for it.  (The model imports
\* one file, so every task of the store belongs to that file.)
C23_OneTaskPerFile ==
  Len(files) > 0 => Len(tasks) = Len(files)

\* C26: the dispatcher of onStartTranslation is a sliding window: once a
\* batch in flight has completed while undispatched batches remain, the next
\* batch is dispatched without waiting for the other batches in flight, so
\* no completed batch is waiting while a batch is still to be dispatched.
C26_SlidingWindow ==
  (/\ run.kind = "controls"
   /\ run.pc = "awaitGroup"
   /\ ~aborted
   /\ Len(obs.dispatched) < Len(run.allBatches))
  => \A c \in Group(run) :
       calls[c].pc = "resolved" => \A d \in Group(run) : Settled(calls[d])

\* C28: a run that called startTranslation ends with isTranslating reset to
\* false, whatever its outcome (all batches succeeded, a batch failed, the
\* run was cancelled, the task could not be created).
C28_EndedRunResetsTranslating ==
  run.pc = "done" => ~isTranslating

\* C29: a 2xx response of the direct pass whose body parses to an empty
\* object is handled like any failed attempt: translateBatch throws on it
\* only once maxRetries attempts have been made.  (A call that failed with an
\* ordinary error after a 2xx direct response is a call whose parsed direct
\* result was empty: a reflection failure falls back to the direct result.)
C29_EmptyDirectResultRetried ==
  \A c \in ClientCalls :
    (/\ calls[c].pc = "failed"
     /\ calls[c].err = "error"
     /\ obs.directKind[c] = "ok")
    => obs.directHttp[c] = RetryBound

\* ---- key rotation while the configuration changes ------------------------
\* the apiKey settings the settings dialog can save: three keys, two keys
\* (the first two or the last two), one key (the first or the last), a blank
\* segment before a key, and the empty string
KeySettings ==
  {<<"k1", "k2", "k3">>, <<"k1", "k2">>, <<"k2", "k3">>, <<"k1">>, <<"k3">>,
   <<" ", "k2">>, <<"">>}

\* the set of valid keys of an apiKey string
validKeys(apiKeyStr) ==
  {apiKeys(apiKeyStr)[j] : j \in DOMAIN apiKeys(apiKeyStr)}

\* obs holds the last getNextApiKey call: the string it was given, whether
\* it threw, and the key it returned
NoKeyCall == [given |-> << >>, threw |-> FALSE, returned |-> "none"]

InitKeys ==
  /\ config \in [batchSize : {1}, threadCount : {1},
                 enableReflection : {FALSE}, apiKey : KeySettings]
  /\ isTranslating = FALSE
  /\ abortController = "none"
  /\ apiKeyIndexRef = 0
  /\ aborted = FALSE
  /\ files = << >>
  /\ tasks = << >>
  /\ history = << >>
  /\ durable = [batch_tasks |-> << >>, translation_history |-> << >>]
  /\ timers = << >>
  /\ run = [IdleRun EXCEPT !.kind = "keys"]
  /\ calls = IdleCalls
  /\ obs = NoKeyCall

KeysFrame ==
  UNCHANGED <<isTranslating, abortController, aborted, files, tasks, history,
              durable, timers, run, calls>>

\* updateConfig({apiKey}): SET_CONFIG replaces the apiKey setting; the index
\* ref is left as it is
updateConfig ==
  /\ \E apiKeyStr \in KeySettings \ {config.apiKey} :
       config' = [config EXCEPT !.apiKey = apiKeyStr]
  /\ UNCHANGED <<apiKeyIndexRef, obs>>
  /\ KeysFrame

\* a request calls getNextApiKey(state.config.apiKey)
keysGetNextApiKey ==
  /\ IF Len(apiKeys(config.apiKey)) = 0
     THEN /\ obs' = [given |-> config.apiKey, threw |-> TRUE,
                     returned |-> "none"]
          /\ UNCHANGED apiKeyIndexRef
     ELSE /\ obs' = [given |-> config.apiKey, threw |-> FALSE,
                     returned |-> getNextApiKey(apiKeyIndexRef, config.apiKey)]
          /\ apiKeyIndexRef' = nextIndex(apiKeyIndexRef, config.apiKey)
  /\ UNCHANGED config
  /\ KeysFrame

NextKeys ==
  \/ updateConfig
  \/ keysGetNextApiKey

SpecKeys == InitKeys /\ [][NextKeys]_vars

\* C30: every getNextApiKey call that does not throw returns one of the valid
\* keys of the apiKey string it was given, also after the configured key list
\* has changed between calls; it never returns undefined.
C30_ReturnsValidKey ==
  (obs.given # << >> /\ ~obs.threw) => obs.returned \in validKeys(obs.given)

\* ---- context window and terms of a batch --------------------------------
\* config.contextBefore / config.contextAfter values tried (the settings
\* dialog accepts 0..10)
ContextSizes == 0..2

\* the characters of the text of an entry (entry.text is the entry id in the
\* model), of the file name, and the originals of the global term list
EntryText(text) ==
  IF text = 1 THEN <<"A", " ", "b">>
  ELSE IF text = 2 THEN <<"c">>
  ELSE <<"d", "-">>

FileName == <<"e", ".", "s">>

GlobalTerms == << <<"a", "B">>, <<"b", "C">>, <<"-">>, <<"E">>, <<"d", "a">> >>

\* String.prototype.toLowerCase on one character
toLowerCase(ch) ==
  IF ch = "A" THEN "a"
  ELSE IF ch = "B" THEN "b"
  ELSE IF ch = "C" THEN "c"
  ELSE IF ch = "E" THEN "e"
  ELSE ch

\* \p{L} or \p{N}
IsLetterOrNumber(ch) == ch \in {"a", "b", "c", "d", "e", "s"}

\* cleanText: lower-case, then drop everything but letters and digits
cleanText(text) ==
  SelectSeq([j \in DOMAIN text |-> toLowerCase(text[j])], IsLetterOrNumber)

\* String.prototype.includes
includes(text, part) ==
  \E k \in 0..(Len(text) - Len(part)) : SubSeq(text, k + 1, k + Len(part)) = part

RECURSIVE joinWith(_, _)
\* Array.prototype.join with a separator character
joinWith(texts, sep) ==
  IF Len(texts) = 0 THEN << >>
  ELSE IF Len(texts) = 1 THEN texts[1]
  ELSE texts[1] \o <<sep>> \o joinWith(Tail(texts), sep)

\* entries.map(e => e.text), as characters
CharsOf(entries) == [j \in DOMAIN entries |-> EntryText(entries[j].text)]

\* getRelevantTerms: the indices of the qualifying terms of the global list,
\* in list order
getRelevantTerms(text, contextBefore, contextAfter) ==
  LET fullText == contextBefore \o <<" ">> \o text \o <<" ">> \o contextAfter
      cleanedFullText == cleanText(fullText)
      qualifies(t) == /\ cleanText(GlobalTerms[t]) # << >>
                      /\ includes(cleanedFullText, cleanText(GlobalTerms[t]))
  IN SelectSeq([t \in DOMAIN GlobalTerms |-> t], qualifies)

Max(a, b) == IF a > b THEN a ELSE b

\* value || fallback on numbers
OrDefault(value, fallback) == IF value = 0 THEN fallback ELSE value

\* TranslationControls: the entries of contextBeforeTexts / contextAfterTexts
contextBeforeEntries(entries, startIdx, contextBefore) ==
  Slice(entries, Max(0, startIdx - contextBefore), startIdx)

contextAfterEntries(entries, endIdx, contextAfter) ==
  Slice(entries, endIdx, Min(Len(entries), endIdx + contextAfter))

\* SubtitleFileList.getPreviousEntries / getNextEntries: the entries joined
getPreviousEntries(entries, currentIndex) ==
  LET contextBefore == OrDefault(config.contextBefore, 2)
      startIndex == Max(0, currentIndex - contextBefore)
  IN Slice(entries, startIndex, currentIndex)

getNextEntries(entries, currentIndex) ==
  LET contextAfter == OrDefault(config.contextAfter, 2)
      endIndex == Min(Len(entries), currentIndex + contextAfter)
  IN Slice(entries, currentIndex, endIndex)

\* obs holds the arguments of the last translateBatch call that was built:
\* the entry point, the slice [startIdx, endIdx) of the batch, the ids of
\* the entries sent and of the entries of both contexts, and the terms
NoBatchInputs ==
  [by |-> "none", startIdx |-> 0, endIdx |-> 0, texts |-> << >>,
   contextBefore |-> << >>, contextAfter |-> << >>, terms |-> << >>]

\* the files an import followed by manual edits leaves: any subset of the
\* entries translated
EditedEntries(translated) ==
  [i \in 1..NumEntries |->
     [id |-> i, text |-> i,
      translatedText |-> IF i \in translated THEN EditValue ELSE 0]]

InitInputs ==
  /\ config \in [batchSize : BatchSizes, threadCount : {1},
                 enableReflection : {FALSE}, apiKey : {ConfiguredKey},
                 contextBefore : ContextSizes, contextAfter : ContextSizes]
  /\ isTranslating = FALSE
  /\ abortController = "none"
  /\ apiKeyIndexRef = 0
  /\ aborted = FALSE
  /\ \E translated \in SUBSET (1..NumEntries) :
       /\ files = <<[id |-> 1, entries |-> EditedEntries(translated),
                     currentTaskId |-> 1]>>
       /\ tasks = createNewTask(<< >>, EditedEntries(translated), 0)
  /\ history = << >>
  /\ durable = [batch_tasks |-> tasks, translation_history |-> << >>]
  /\ timers = << >>
  /\ run = [IdleRun EXCEPT !.kind = "inputs"]
  /\ calls = IdleCalls
  /\ obs = NoBatchInputs

InputsFrame ==
  UNCHANGED <<config, isTranslating, abortController, apiKeyIndexRef, aborted,
              files, tasks, history, durable, timers, run, calls>>

\* onStartTranslation builds the batch of index b of allBatches
controlsBatchInputs ==
  /\ LET entries == files[1].entries
         allBatches == allBatchesOf(entries, config.batchSize)
     IN \E b \in DOMAIN allBatches :
          LET startIdx == allBatches[b].batchIndex * config.batchSize
              endIdx == Min(startIdx + config.batchSize, Len(entries))
              untranslatedEntries == allBatches[b].untranslatedEntries
              before == contextBeforeEntries(entries, startIdx,
                                             config.contextBefore)
              after == contextAfterEntries(entries, endIdx,
                                           config.contextAfter)
              contextBeforeTexts == joinWith(CharsOf(before), "\n")
              contextAfterTexts == joinWith(CharsOf(after), "\n")
              batchText == joinWith(CharsOf(untranslatedEntries), " ")
          IN obs' = [by |-> "onStartTranslation",
                     startIdx |-> startIdx, endIdx |-> endIdx,
                     texts |-> TextsOf(untranslatedEntries),
                     contextBefore |-> TextsOf(before),
                     contextAfter |-> TextsOf(after),
                     terms |-> getRelevantTerms(batchText, contextBeforeTexts,
                                                contextAfterTexts)]
  /\ InputsFrame

\* handleStartTranslation builds the batch that starts at offset i
fileListBatchInputs ==
  /\ LET entries == files[1].entries
         batchSize == OrDefault(config.batchSize, 10)
     IN \E i \in {k \in 0..(Len(entries) - 1) : k % batchSize = 0} :
          LET batch == Slice(entries, i, i + batchSize)
              before == getPreviousEntries(entries, i)
              after == getNextEntries(entries, i + Len(batch))
          IN obs' = [by |-> "handleStartTranslation",
                     startIdx |-> i, endIdx |-> i + Len(batch),
                     texts |-> TextsOf(batch),
                     contextBefore |-> TextsOf(before),
                     contextAfter |-> TextsOf(after),
                     terms |-> getRelevantTerms(FileName, << >>, << >>)]
  /\ InputsFrame

NextInputs ==
  \/ controlsBatchInputs
  \/ fileListBatchInputs

SpecInputs == InitInputs /\ [][NextInputs]_vars

\* C24: the context-before of a batch is made of the at most
\* config.contextBefore entries that immediately precede the batch, the
\* context-after of the at most config.contextAfter entries that immediately
\* follow it, clipped at the ends of the file; a window size of 0 gives an
\* empty context.
C24_ContextWindow ==
  obs.by # "none" =>
    LET ids == TextsOf(files[1].entries)
        first == Max(0, obs.startIdx - config.contextBefore)
        last == Min(Len(ids), obs.endIdx + config.contextAfter)
    IN /\ obs.contextBefore = SubSeq(ids, first + 1, obs.startIdx)
       /\ obs.contextAfter = SubSeq(ids, obs.endIdx + 1, last)
       /\ (config.contextBefore = 0 => obs.contextBefore = << >>)
       /\ (config.contextAfter = 0 => obs.contextAfter = << >>)

\* C25: the terms passed with a batch are exactly the global terms whose
\* normalized original is non-empty and occurs in the normalized
\* concatenation of the batch's context-before, batch text and context-after.
OccursInBatch(t) ==
  LET chars(texts) == [j \in DOMAIN texts |-> EntryText(texts[j])]
      all == chars(obs.contextBefore) \o chars(obs.texts) \o chars(obs.contextAfter)
      normalized == cleanText(joinWith(all, " "))
      original == cleanText(GlobalTerms[t])
  IN original # << >> /\ includes(normalized, original)

C25_RelevantTerms ==
  obs.by # "none" =>
    {obs.terms[j] : j \in DOMAIN obs.terms}
      = {t \in DOMAIN GlobalTerms : OccursInBatch(t)}

====
